---- MODULE Spec2Model ----
(***************************************************************************)
(* Models of the demonstration scripts of the repository:                  *)
(*   concepts/mutable_default_arguments.py          (SpecEmployees,        *)
(*                                                    SpecTime)            *)
(*   libraries/concurrent_futures/basic_threadpool.py (SpecPool,           *)
(*                                                    FairSpecPool)        *)
(*   libraries/concurrent_futures/                                         *)
(*       processpool_03_shared_memory_custom_objects.py (SpecNs,           *)
(*                                                    SpecNsNoLock)        *)
(*   libraries/concurrent_futures/processpool_02_shared_memory.py (SpecSm) *)
(*   libraries/concurrent_futures/processpool_01_pickle.py (SpecPk,        *)
(*                                                    FairSpecPk)          *)
(*   libraries/pydantic/03_annotated.py             (SpecAn)               *)
(*   frameworks/fastapi/concepts/00_basic.py        (SpecApi)              *)
(*   libraries/pydantic/05_custom_validator.py      (SpecCv)               *)
(*   libraries/pydantic/06_computed_field.py        (SpecCf)               *)
(* Every script has its own variables and its own next-state relation; a   *)
(* specification leaves the variables of the other scripts unchanged.      *)
(***************************************************************************)
EXTENDS Integers, Sequences, FiniteSets, TLC

VARIABLES
    \* ---- mutable_default_arguments.py, example 1
    add_employee_defaults,        \* the list object add_employee.__defaults__[0]
    emps,                         \* the module-level list `emps`
    emp_log,                      \* one record per add_employee call: what was passed and printed
    add_employee_fixed_defaults,  \* add_employee_fixed.__defaults__[0]
    fixed_log,                    \* one record per add_employee_fixed call
    \* ---- mutable_default_arguments.py, example 2
    clock,                        \* the wall clock read by datetime.now(), in ticks
    display_time_defaults,        \* display_time.__defaults__[0]
    time_log,                     \* one record per display_time call
    time_fixed_log,               \* one record per display_time_fixed call
    \* ---- basic_threadpool.py
    pc,                           \* the statement the main thread is at
    submitted,                    \* how many of task1..task5 have been submitted
    work_queue,                   \* the executor's FIFO queue: task numbers, 0 for None
    shutdown_flag,                \* executor._shutdown
    idle_semaphore,               \* executor._idle_semaphore
    thread,                       \* per worker thread: its state and the task it runs
    future,                       \* per task: the state of its Future
    future_result,                \* per task: the value set on its Future
    run_count,                    \* per task: how many times task(n) was entered
    start_order,                  \* the tasks in the order they started running
    main_out,                     \* what the main thread has printed
    \* ---- processpool_03_shared_memory_custom_objects.py
    ns_pc,                        \* the statement the main process is at
    shared_data,                  \* the manager's Namespace: x and y
    lock,                         \* the manager's Lock: its holder, 0 when free
    call_queue,                   \* the submitted calls no process has taken yet
    proc,                         \* per pool process: where it is in modify_data
    ns_future,                    \* per submitted call: the state of its Future
    ns_result,                    \* per submitted call: the tuple it returned
    my_obj,                       \* the MyData instance of the main process
    ns_out,                       \* the results printed by the main process
    \* ---- processpool_02_shared_memory.py
    sm_pc,                        \* the statement the main process is at
    shared_list,                  \* the module-level list the threads append to
    shared,                       \* the manager.list() the processes append to
    sm_queue,                     \* the submitted calls no worker has taken yet
    sm_call,                      \* per n: where the call for n is in the worker running it
    sm_future,                    \* per n: the state of the Future of the call for n
    sm_result,                    \* per n: the snapshot the call for n returned
    sm_printed,                   \* the snapshots printed in the current section
    sm_final,                     \* the final lists printed: thread section, process section
    \* ---- processpool_01_pickle.py
    pk_section,                   \* the section main() is in: 1 top-level, 2 nested, 3 lambda, 4 object
    pk_pc,                        \* the statement main() is at in the section
    pk_work,                      \* the submitted work items not yet pickled into the call queue
    pk_call_queue,                \* the pickled calls no process has taken yet
    pk_call,                      \* per i: the pickled call a process is running, or None
    pk_future,                    \* per i: the state of the Future of the call for i
    pk_value,                     \* per i: the result set on the Future
    pk_order,                     \* the calls of the section in the order they completed
    pk_results,                   \* the list `results` being built
    pk_raised,                    \* whether an exception is propagating out of the with block
    pk_out,                       \* what main() has printed
    \* ---- pydantic/03_annotated.py
    an_pc,                        \* where the call User(...) is: the field being validated
    an_data,                      \* the keyword arguments of the call
    an_errors,                    \* the errors collected so far by the call
    an_user,                      \* the instances created: at most one
    an_exc,                       \* the errors of the ValidationError raised, if any
    an_out,                       \* what the except clause has printed
    \* ---- fastapi/concepts/00_basic.py
    api_pc,                       \* the statement the import of the module is at, then "serving"
    api_routes,                   \* app.router.routes: the routes registered by the decorators
    api_log,                      \* the requests served so far, each with its response
    \* ---- pydantic/05_custom_validator.py
    cv_pc,                        \* where the validation of the username field is
    cv_v,                         \* the username passed to User(...)
    cv_outcome,                   \* how the validation of the field ended, and the value kept
    \* ---- pydantic/06_computed_field.py
    cf_pc,                        \* "call" before the instance exists, "user" once it does
    cf_created,                   \* the fields of the instance as they were when it was created
    cf_user,                      \* the fields of the instance as they are now
    cf_assigned,                  \* how many assignments to a field have been made
    cf_read                       \* the computed fields as last read: printed or serialized

empVars  == <<add_employee_defaults, emps, emp_log, add_employee_fixed_defaults, fixed_log>>
timeVars == <<clock, display_time_defaults, time_log, time_fixed_log>>
poolVars == <<pc, submitted, work_queue, shutdown_flag, idle_semaphore, thread,
              future, future_result, run_count, start_order, main_out>>

nsVars   == <<ns_pc, shared_data, lock, call_queue, proc, ns_future, ns_result, my_obj,
              ns_out>>

smVars   == <<sm_pc, shared_list, shared, sm_queue, sm_call, sm_future, sm_result,
              sm_printed, sm_final>>

pkVars   == <<pk_section, pk_pc, pk_work, pk_call_queue, pk_call, pk_future, pk_value,
              pk_order, pk_results, pk_raised, pk_out>>

anVars   == <<an_pc, an_data, an_errors, an_user, an_exc, an_out>>

apiVars  == <<api_pc, api_routes, api_log>>

cvVars   == <<cv_pc, cv_v, cv_outcome>>

cfVars   == <<cf_pc, cf_created, cf_user, cf_assigned, cf_read>>

vars == <<empVars, timeVars, poolVars, nsVars, smVars, pkVars, anVars, apiVars, cvVars, cfVars>>

\* what the steps of one script leave alone: the variables of the other scripts
outsideEmployees == <<timeVars, poolVars, nsVars, smVars, pkVars, anVars, apiVars, cvVars, cfVars>>
outsideTime      == <<empVars, poolVars, nsVars, smVars, pkVars, anVars, apiVars, cvVars, cfVars>>
outsidePool      == <<empVars, timeVars, nsVars, smVars, pkVars, anVars, apiVars, cvVars, cfVars>>
outsideNs        == <<empVars, timeVars, poolVars, smVars, pkVars, anVars, apiVars, cvVars, cfVars>>
outsideSm        == <<empVars, timeVars, poolVars, nsVars, pkVars, anVars, apiVars, cvVars, cfVars>>
outsidePk        == <<empVars, timeVars, poolVars, nsVars, smVars, anVars, apiVars, cvVars, cfVars>>
outsideAn        == <<empVars, timeVars, poolVars, nsVars, smVars, pkVars, apiVars, cvVars, cfVars>>
outsideApi       == <<empVars, timeVars, poolVars, nsVars, smVars, pkVars, anVars, cvVars, cfVars>>
outsideCv        == <<empVars, timeVars, poolVars, nsVars, smVars, pkVars, anVars, apiVars, cfVars>>
outsideCf        == <<empVars, timeVars, poolVars, nsVars, smVars, pkVars, anVars, apiVars, cvVars>>

(***************************************************************************)
(* Bounds of the model.                                                    *)
(***************************************************************************)
\* calls made to the functions of one example
MaxCalls == 4
\* clock ticks per second: datetime.now() is finer than the printed second
TicksPerSec == 2
\* the clock stops advancing here
MaxClock == 7

\* the employees passed by lines 11, 20, 23, 26, 46, 47
Employees == {"Aditya", "Corey", "Casey"}

(***************************************************************************)
(* Python values: None, list objects and the str a task returns.           *)
(***************************************************************************)
None  == [kind |-> "None", items |-> <<>>]
List(s) == [kind |-> "list", items |-> s]
Str(s)  == [kind |-> "str", items |-> s]

(***************************************************************************)
(* EXAMPLE 1: add_employee(emp, emp_list=[])                               *)
(* The call without emp_list binds emp_list to the default object, the     *)
(* append mutates that object in place, and the object is printed.         *)
(***************************************************************************)
add_employee_rebinds(emp) ==
    /\ Len(emp_log) + Len(fixed_log) < MaxCalls
    /\ emp_log' = Append(emp_log, [emp |-> emp, dflt |-> TRUE,
                                   printed |-> Append(add_employee_defaults.items, emp)])
    /\ UNCHANGED <<add_employee_defaults, emps, add_employee_fixed_defaults, fixed_log, outsideEmployees>>

add_employee(emp) ==
    /\ Len(emp_log) + Len(fixed_log) < MaxCalls
    /\ add_employee_defaults' = List(Append(add_employee_defaults.items, emp))
    /\ emp_log' = Append(emp_log, [emp |-> emp, dflt |-> TRUE,
                                   printed |-> add_employee_defaults'.items])
    /\ UNCHANGED <<emps, add_employee_fixed_defaults, fixed_log, outsideEmployees>>

\* add_employee(emp, emps): the explicit list is the object mutated and printed
add_employee_explicit(emp) ==
    /\ Len(emp_log) + Len(fixed_log) < MaxCalls
    /\ emps' = List(Append(emps.items, emp))
    /\ emp_log' = Append(emp_log, [emp |-> emp, dflt |-> FALSE, printed |-> emps'.items])
    /\ UNCHANGED <<add_employee_defaults, add_employee_fixed_defaults, fixed_log, outsideEmployees>>

(***************************************************************************)
(* FIX: add_employee_fixed(emp, emp_list=None)                             *)
(* emp_list is the default object; when it is None a new list is made for  *)
(* this call, otherwise the object itself is appended to.                  *)
(***************************************************************************)
add_employee_fixed_shared(emp) ==
    /\ Len(emp_log) + Len(fixed_log) < MaxCalls
    /\ add_employee_fixed_defaults' = List(Append(add_employee_fixed_defaults.items, emp))
    /\ fixed_log' = Append(fixed_log, [emp |-> emp,
                                       printed |-> add_employee_fixed_defaults'.items])
    /\ UNCHANGED <<add_employee_defaults, emps, emp_log, outsideEmployees>>

add_employee_fixed(emp) ==
    /\ Len(emp_log) + Len(fixed_log) < MaxCalls
    /\ LET emp_list == add_employee_fixed_defaults
       IN  IF emp_list = None
           THEN /\ fixed_log' = Append(fixed_log, [emp |-> emp,
                                                   printed |-> Append(<<>>, emp)])
                /\ UNCHANGED add_employee_fixed_defaults
           ELSE /\ add_employee_fixed_defaults' = List(Append(emp_list.items, emp))
                /\ fixed_log' = Append(fixed_log, [emp |-> emp,
                                       printed |-> add_employee_fixed_defaults'.items])
    /\ UNCHANGED <<add_employee_defaults, emps, emp_log, outsideEmployees>>

(***************************************************************************)
(* EXAMPLE 2: display_time(time_to_print=datetime.now())                   *)
(***************************************************************************)
\* strftime("%B %d, %Y %H:%M:%S"): the timestamp down to the whole second
strftime(t) == t \div TicksPerSec

\* datetime.now()
now == clock

\* the call without an argument prints the default object
display_time ==
    /\ Len(time_log) + Len(time_fixed_log) < MaxCalls
    /\ time_log' = Append(time_log, [at |-> clock,
                                     printed |-> strftime(display_time_defaults)])
    /\ UNCHANGED <<clock, display_time_defaults, time_fixed_log, outsideTime>>

display_time_fixed_at_definition ==
    /\ Len(time_log) + Len(time_fixed_log) < MaxCalls
    /\ time_fixed_log' = Append(time_fixed_log,
                                [at |-> clock, printed |-> strftime(display_time_defaults)])
    /\ UNCHANGED <<clock, display_time_defaults, time_log, outsideTime>>

\* FIX: time_to_print is None, so the clock is read in the call
display_time_fixed ==
    /\ Len(time_log) + Len(time_fixed_log) < MaxCalls
    /\ LET time_to_print == now
       IN  time_fixed_log' = Append(time_fixed_log,
                                    [at |-> clock, printed |-> strftime(time_to_print)])
    /\ UNCHANGED <<clock, display_time_defaults, time_log, outsideTime>>

\* time passes while the script runs: the clock moves on by one tick
Tick ==
    /\ clock < MaxClock
    /\ clock' = clock + 1
    /\ UNCHANGED <<display_time_defaults, time_log, time_fixed_log, outsideTime>>

\* time.sleep(1): at least one second passes
sleep ==
    /\ \E d \in TicksPerSec .. (TicksPerSec + 1) :
          /\ clock + d <= MaxClock
          /\ clock' = clock + d
    /\ UNCHANGED <<display_time_defaults, time_log, time_fixed_log, outsideTime>>

(***************************************************************************)
(* basic_threadpool.py                                                     *)
(* The script's main thread, and the ThreadPoolExecutor it drives: a FIFO  *)
(* work queue, worker threads created by submit() while fewer than         *)
(* max_workers exist and none is idle, and shutdown(wait=True) on leaving  *)
(* the with block.                                                         *)
(***************************************************************************)
\* task1 .. task5
NumTasks == 5
Tasks == 1 .. NumTasks

max_workers_unlimited == NumTasks

\* ThreadPoolExecutor(max_workers=3)
max_workers == 3

\* a thread is created by a submit at most, so there are never more than NumTasks
Threads == 1 .. NumTasks

\* f"Task {n} completed."
task_return(n) == Str(<<"Task", n, "completed.">>)

\* Future.running() and Future.done()
running(n) == future[n] = "RUNNING"
done(n)    == future[n] = "FINISHED"

num_threads == Cardinality({t \in Threads : thread[t].state # "unborn"})

\* executor.submit(task, n): the Future is created pending, the work item is
\* queued, and _adjust_thread_count() takes an idle thread's permit or else
\* starts a thread while fewer than max_workers exist.  It never waits.
submit ==
    /\ pc = "submit"
    /\ ~shutdown_flag
    /\ LET n == submitted + 1
       IN  /\ future' = [future EXCEPT ![n] = "PENDING"]
           /\ work_queue' = Append(work_queue, n)
           /\ submitted' = n
           /\ pc' = IF n = NumTasks THEN "print_message" ELSE "submit"
    /\ IF idle_semaphore > 0
       THEN /\ idle_semaphore' = idle_semaphore - 1
            /\ UNCHANGED thread
       ELSE /\ UNCHANGED idle_semaphore
            /\ IF num_threads < max_workers
               THEN thread' = [thread EXCEPT ![num_threads + 1] =
                                                [state |-> "ready", item |-> 0]]
               ELSE UNCHANGED thread
    /\ UNCHANGED <<shutdown_flag, future_result, run_count, start_order, main_out,
                   outsidePool>>

\* print("|| I am executed before task4 and task5 starts executing! ||")
print_message ==
    /\ pc = "print_message"
    /\ main_out' = Append(main_out, [line |-> "message"])
    /\ pc' = "print_before"
    /\ UNCHANGED <<submitted, work_queue, shutdown_flag, idle_semaphore, thread, future,
                   future_result, run_count, start_order, outsidePool>>

\* print("Before .result():", task1.running(), task1.done())
print_before ==
    /\ pc = "print_before"
    /\ main_out' = Append(main_out, [line |-> "before", running |-> running(1),
                                     done |-> done(1)])
    /\ pc' = "result"
    /\ UNCHANGED <<submitted, work_queue, shutdown_flag, idle_semaphore, thread, future,
                   future_result, run_count, start_order, outsidePool>>

result_without_waiting ==
    /\ pc = "result"
    /\ main_out' = Append(main_out, [line |-> "result", value |-> future_result[1]])
    /\ pc' = "print_after"
    /\ UNCHANGED <<submitted, work_queue, shutdown_flag, idle_semaphore, thread, future,
                   future_result, run_count, start_order, outsidePool>>

\* print(task1.result()): waits until the Future is finished, then its value
result ==
    /\ pc = "result"
    /\ future[1] = "FINISHED"
    /\ main_out' = Append(main_out, [line |-> "result", value |-> future_result[1]])
    /\ pc' = "print_after"
    /\ UNCHANGED <<submitted, work_queue, shutdown_flag, idle_semaphore, thread, future,
                   future_result, run_count, start_order, outsidePool>>

\* print("After .result():", task1.running(), task1.done())
print_after ==
    /\ pc = "print_after"
    /\ main_out' = Append(main_out, [line |-> "after", running |-> running(1),
                                     done |-> done(1)])
    /\ pc' = "exit_with"
    /\ UNCHANGED <<submitted, work_queue, shutdown_flag, idle_semaphore, thread, future,
                   future_result, run_count, start_order, outsidePool>>

\* leaving the with block: shutdown(wait=True) sets the flag and queues None
exit_with ==
    /\ pc = "exit_with"
    /\ shutdown_flag' = TRUE
    /\ work_queue' = Append(work_queue, 0)
    /\ pc' = "join"
    /\ UNCHANGED <<submitted, idle_semaphore, thread, future, future_result, run_count,
                   start_order, main_out, outsidePool>>

join_without_waiting ==
    /\ pc = "join"
    /\ pc' = "print_time"
    /\ UNCHANGED <<submitted, work_queue, shutdown_flag, idle_semaphore, thread, future,
                   future_result, run_count, start_order, main_out, outsidePool>>

\* shutdown(wait=True), second half: every worker thread is joined
join ==
    /\ pc = "join"
    /\ \A t \in Threads : thread[t].state \in {"unborn", "exited"}
    /\ pc' = "print_time"
    /\ UNCHANGED <<submitted, work_queue, shutdown_flag, idle_semaphore, thread, future,
                   future_result, run_count, start_order, main_out, outsidePool>>

\* print(f"Time take: ...")
print_time ==
    /\ pc = "print_time"
    /\ main_out' = Append(main_out, [line |-> "time"])
    /\ pc' = "done"
    /\ UNCHANGED <<submitted, work_queue, shutdown_flag, idle_semaphore, thread, future,
                   future_result, run_count, start_order, outsidePool>>

\* worker thread t finds the queue empty: it announces itself idle and waits
worker_idle(t) ==
    /\ thread[t].state = "ready"
    /\ work_queue = <<>>
    /\ idle_semaphore' = idle_semaphore + 1
    /\ thread' = [thread EXCEPT ![t].state = "waiting"]
    /\ UNCHANGED <<pc, submitted, work_queue, shutdown_flag, future, future_result,
                   run_count, start_order, main_out, outsidePool>>

\* worker thread t takes the head of the queue, a task: the Future becomes
\* running and task(n) is entered: print(f"Starting task {n}")
worker_start(t) ==
    /\ thread[t].state \in {"ready", "waiting"}
    /\ work_queue # <<>>
    /\ Head(work_queue) # 0
    /\ LET n == Head(work_queue)
       IN  /\ work_queue' = Tail(work_queue)
           /\ future' = [future EXCEPT ![n] = "RUNNING"]
           /\ thread' = [thread EXCEPT ![t] = [state |-> "running", item |-> n]]
           /\ run_count' = [run_count EXCEPT ![n] = @ + 1]
           /\ start_order' = Append(start_order, n)
    /\ UNCHANGED <<pc, submitted, shutdown_flag, idle_semaphore, future_result, main_out,
                   outsidePool>>

\* time.sleep(2) is over and task(n) returns: the value is set on the Future
worker_finish(t) ==
    /\ thread[t].state = "running"
    /\ LET n == thread[t].item
       IN  /\ future' = [future EXCEPT ![n] = "FINISHED"]
           /\ future_result' = [future_result EXCEPT ![n] = task_return(n)]
    /\ thread' = [thread EXCEPT ![t] = [state |-> "ready", item |-> 0]]
    /\ UNCHANGED <<pc, submitted, work_queue, shutdown_flag, idle_semaphore, run_count,
                   start_order, main_out, outsidePool>>

\* worker thread t takes None from the queue after shutdown: it puts None
\* back for the other threads and exits
worker_exit(t) ==
    /\ thread[t].state \in {"ready", "waiting"}
    /\ work_queue # <<>>
    /\ Head(work_queue) = 0
    /\ shutdown_flag
    /\ work_queue' = Append(Tail(work_queue), 0)
    /\ thread' = [thread EXCEPT ![t].state = "exited"]
    /\ UNCHANGED <<pc, submitted, shutdown_flag, idle_semaphore, future, future_result,
                   run_count, start_order, main_out, outsidePool>>

(***************************************************************************)
(* processpool_03_shared_memory_custom_objects.py                          *)
(* The main process submits modify_data(shared_data, i, lock) for          *)
(* i = 1, 2, 3 to a pool of three processes.  Every access to ns.x or ns.y *)
(* is one request to the manager, so `ns.x += delta` is a read followed by *)
(* a write.                                                                *)
(***************************************************************************)
\* ProcessPoolExecutor(max_workers=3)
ns_max_workers == 3
Procs == 1 .. ns_max_workers

\* range(1, 4): the deltas, which also name the calls
ns_last_delta == 3
Deltas == 1 .. ns_last_delta

Idle == [at |-> "idle", delta |-> 0, tmp |-> 0]

\* executor.submit(modify_data, shared_data, i, lock) for i in range(1, 4)
ns_submit ==
    /\ ns_pc = "submit"
    /\ \E i \in Deltas :
          /\ ns_future[i] = "NONE"
          /\ \A j \in Deltas : j < i => ns_future[j] # "NONE"
          /\ ns_future' = [ns_future EXCEPT ![i] = "PENDING"]
          /\ call_queue' = Append(call_queue, i)
          /\ ns_pc' = IF i = ns_last_delta THEN "result" ELSE "submit"
    /\ UNCHANGED <<shared_data, lock, proc, ns_result, my_obj, ns_out, outsideNs>>

\* pool process p takes the next call: modify_data(ns, delta, lock) begins
modify_data_call(p) ==
    /\ proc[p].at = "idle"
    /\ call_queue # <<>>
    /\ proc' = [proc EXCEPT ![p] = [at |-> "with_lock", delta |-> Head(call_queue),
                                    tmp |-> 0]]
    /\ ns_future' = [ns_future EXCEPT ![Head(call_queue)] = "RUNNING"]
    /\ call_queue' = Tail(call_queue)
    /\ UNCHANGED <<ns_pc, shared_data, lock, ns_result, my_obj, ns_out, outsideNs>>

\* modify_data as it would run without `with lock:` (the docstring's note
\* "Without the lock, concurrent writes may overwrite each other"): the body
\* is entered at once
modify_data_unlocked(p) ==
    /\ proc[p].at = "with_lock"
    /\ proc' = [proc EXCEPT ![p].at = "print"]
    /\ UNCHANGED <<ns_pc, shared_data, lock, call_queue, ns_future, ns_result, my_obj,
                   ns_out, outsideNs>>

modify_data_without_lock(p) == modify_data_unlocked(p)

\* with lock: the process waits until the lock is free and takes it
modify_data_acquire(p) ==
    /\ proc[p].at = "with_lock"
    /\ lock = 0
    /\ lock' = p
    /\ proc' = [proc EXCEPT ![p].at = "print"]
    /\ UNCHANGED <<ns_pc, shared_data, call_queue, ns_future, ns_result, my_obj, ns_out,
                   outsideNs>>

\* print(f"Process modifying: x={ns.x}, y={ns.y}, delta={delta}")
modify_data_print(p) ==
    /\ proc[p].at = "print"
    /\ proc' = [proc EXCEPT ![p].at = "read_x"]
    /\ UNCHANGED <<ns_pc, shared_data, lock, call_queue, ns_future, ns_result, my_obj,
                   ns_out, outsideNs>>

\* ns.x += delta, first half: ns.x is fetched from the manager
modify_data_read_x(p) ==
    /\ proc[p].at = "read_x"
    /\ proc' = [proc EXCEPT ![p].at = "write_x", ![p].tmp = shared_data.x]
    /\ UNCHANGED <<ns_pc, shared_data, lock, call_queue, ns_future, ns_result, my_obj,
                   ns_out, outsideNs>>

modify_data_write_x_no_delta(p) ==
    /\ proc[p].at = "write_x"
    /\ shared_data' = [shared_data EXCEPT !.x = proc[p].tmp]
    /\ proc' = [proc EXCEPT ![p].at = "read_y"]
    /\ UNCHANGED <<ns_pc, lock, call_queue, ns_future, ns_result, my_obj, ns_out,
                   outsideNs>>

\* ns.x += delta, second half: the sum is stored in the manager
modify_data_write_x(p) ==
    /\ proc[p].at = "write_x"
    /\ shared_data' = [shared_data EXCEPT !.x = proc[p].tmp + proc[p].delta]
    /\ proc' = [proc EXCEPT ![p].at = "read_y"]
    /\ UNCHANGED <<ns_pc, lock, call_queue, ns_future, ns_result, my_obj, ns_out,
                   outsideNs>>

\* ns.y += delta, first half
modify_data_read_y(p) ==
    /\ proc[p].at = "read_y"
    /\ proc' = [proc EXCEPT ![p].at = "write_y", ![p].tmp = shared_data.y]
    /\ UNCHANGED <<ns_pc, shared_data, lock, call_queue, ns_future, ns_result, my_obj,
                   ns_out, outsideNs>>

\* ns.y += delta, second half
modify_data_write_y(p) ==
    /\ proc[p].at = "write_y"
    /\ shared_data' = [shared_data EXCEPT !.y = proc[p].tmp + proc[p].delta]
    /\ proc' = [proc EXCEPT ![p].at = "return"]
    /\ UNCHANGED <<ns_pc, lock, call_queue, ns_future, ns_result, my_obj, ns_out,
                   outsideNs>>

\* return ns.x, ns.y: the tuple is built, the with block is left and the lock
\* released (if this process holds it), and the Future gets the tuple
modify_data_return(p) ==
    /\ proc[p].at = "return"
    /\ ns_result' = [ns_result EXCEPT ![proc[p].delta] = <<shared_data.x, shared_data.y>>]
    /\ ns_future' = [ns_future EXCEPT ![proc[p].delta] = "FINISHED"]
    /\ lock' = IF lock = p THEN 0 ELSE lock
    /\ proc' = [proc EXCEPT ![p] = Idle]
    /\ UNCHANGED <<ns_pc, shared_data, call_queue, my_obj, ns_out, outsideNs>>

\* for f in futures: result = f.result(); print("Result from process:", result)
ns_result_loop ==
    /\ ns_pc = "result"
    /\ LET i == Len(ns_out) + 1
       IN  /\ ns_future[i] = "FINISHED"
           /\ ns_out' = Append(ns_out, ns_result[i])
           /\ ns_pc' = IF i = ns_last_delta THEN "copy_x" ELSE "result"
    /\ UNCHANGED <<shared_data, lock, call_queue, proc, ns_future, ns_result, my_obj,
                   outsideNs>>

\* the with block is left (every call has finished); my_obj.x = shared_data.x
ns_copy_x ==
    /\ ns_pc = "copy_x"
    /\ \A i \in Deltas : ns_future[i] = "FINISHED"
    /\ my_obj' = [my_obj EXCEPT !.x = shared_data.x]
    /\ ns_pc' = "copy_y"
    /\ UNCHANGED <<shared_data, lock, call_queue, proc, ns_future, ns_result, ns_out,
                   outsideNs>>

\* my_obj.y = shared_data.y; print("After processing:", my_obj)
ns_copy_y ==
    /\ ns_pc = "copy_y"
    /\ my_obj' = [my_obj EXCEPT !.y = shared_data.y]
    /\ ns_pc' = "done"
    /\ UNCHANGED <<shared_data, lock, call_queue, proc, ns_future, ns_result, ns_out,
                   outsideNs>>

(***************************************************************************)
(* processpool_02_shared_memory.py                                         *)
(* Two sections, one after the other: five calls of thread_task on a pool  *)
(* of three threads appending to the module-level list, then five calls of *)
(* process_task on a pool of three processes appending to a manager.list().*)
(* list.append, and the append request served by the manager, are atomic.  *)
(***************************************************************************)
\* ThreadPoolExecutor(max_workers=3), ProcessPoolExecutor(max_workers=3)
sm_max_workers == 3

\* range(5)
sm_range == 5
SmArgs == 0 .. (sm_range - 1)

\* the calls a worker is running
SmBusy == {n \in SmArgs : sm_call[n] # "none"}

\* the next n to submit: those before it have a Future
SmNextArg == Cardinality({n \in SmArgs : sm_future[n] # "NONE"})

\* executor.map(thread_task, range(5)) submits the five calls one by one
thread_map ==
    /\ sm_pc = "thread_map"
    /\ LET n == SmNextArg
       IN  /\ sm_future' = [sm_future EXCEPT ![n] = "PENDING"]
           /\ sm_queue' = Append(sm_queue, n)
           /\ sm_pc' = IF n = sm_range - 1 THEN "thread_results" ELSE "thread_map"
    /\ UNCHANGED <<shared_list, shared, sm_call, sm_result, sm_printed, sm_final,
                   outsideSm>>

\* one of the three workers is idle and takes the next call
sm_take ==
    /\ Cardinality(SmBusy) < sm_max_workers
    /\ sm_queue # <<>>
    /\ sm_call' = [sm_call EXCEPT ![Head(sm_queue)] = "append"]
    /\ sm_future' = [sm_future EXCEPT ![Head(sm_queue)] = "RUNNING"]
    /\ sm_queue' = Tail(sm_queue)
    /\ UNCHANGED <<sm_pc, shared_list, shared, sm_result, sm_printed, sm_final, outsideSm>>

thread_task_append_racy(n) ==
    /\ sm_pc \in {"thread_map", "thread_results"}
    /\ sm_call[n] = "append"
    /\ shared_list' = IF shared_list = <<>>
                      THEN <<n>>
                      ELSE [shared_list EXCEPT ![Len(shared_list)] = n]
    /\ sm_call' = [sm_call EXCEPT ![n] = "sleep"]
    /\ UNCHANGED <<sm_pc, shared, sm_queue, sm_future, sm_result, sm_printed, sm_final,
                   outsideSm>>

\* thread_task(n): shared_list.append(n)
thread_task_append(n) ==
    /\ sm_pc \in {"thread_map", "thread_results"}
    /\ sm_call[n] = "append"
    /\ shared_list' = Append(shared_list, n)
    /\ sm_call' = [sm_call EXCEPT ![n] = "sleep"]
    /\ UNCHANGED <<sm_pc, shared, sm_queue, sm_future, sm_result, sm_printed, sm_final,
                   outsideSm>>

\* thread_task(n): time.sleep(0.5); return shared_list.copy()
thread_task_return(n) ==
    /\ sm_pc \in {"thread_map", "thread_results"}
    /\ sm_call[n] = "sleep"
    /\ sm_result' = [sm_result EXCEPT ![n] = List(shared_list)]
    /\ sm_future' = [sm_future EXCEPT ![n] = "FINISHED"]
    /\ sm_call' = [sm_call EXCEPT ![n] = "none"]
    /\ UNCHANGED <<sm_pc, shared_list, shared, sm_queue, sm_printed, sm_final, outsideSm>>

\* for result in results: print(result), in the order of range(5)
thread_results ==
    /\ sm_pc = "thread_results"
    /\ LET n == Len(sm_printed)
       IN  /\ sm_future[n] = "FINISHED"
           /\ sm_printed' = Append(sm_printed, sm_result[n])
           /\ sm_pc' = IF n = sm_range - 1 THEN "thread_final" ELSE "thread_results"
    /\ UNCHANGED <<shared_list, shared, sm_queue, sm_call, sm_future, sm_result,
                   sm_final, outsideSm>>

\* the with block is left; print("Final shared_list:", shared_list); the
\* manager, its list and the process pool are created
thread_final ==
    /\ sm_pc = "thread_final"
    /\ \A n \in SmArgs : sm_future[n] = "FINISHED"
    /\ sm_final' = [sm_final EXCEPT !.thread = List(shared_list)]
    /\ shared' = <<>>
    /\ sm_future' = [n \in SmArgs |-> "NONE"]
    /\ sm_result' = [n \in SmArgs |-> None]
    /\ sm_printed' = <<>>
    /\ sm_pc' = "process_submit"
    /\ UNCHANGED <<shared_list, sm_queue, sm_call, outsideSm>>

\* futures = [executor.submit(process_task, i, shared) for i in range(5)]
process_submit ==
    /\ sm_pc = "process_submit"
    /\ LET n == SmNextArg
       IN  /\ sm_future' = [sm_future EXCEPT ![n] = "PENDING"]
           /\ sm_queue' = Append(sm_queue, n)
           /\ sm_pc' = IF n = sm_range - 1 THEN "process_results" ELSE "process_submit"
    /\ UNCHANGED <<shared_list, shared, sm_call, sm_result, sm_printed, sm_final,
                   outsideSm>>

\* process_task(n, shared): shared.append(n), one request to the manager
process_task_append(n) ==
    /\ sm_pc \in {"process_submit", "process_results"}
    /\ sm_call[n] = "append"
    /\ shared' = Append(shared, n)
    /\ sm_call' = [sm_call EXCEPT ![n] = "sleep"]
    /\ UNCHANGED <<sm_pc, shared_list, sm_queue, sm_future, sm_result, sm_printed,
                   sm_final, outsideSm>>

\* process_task(n, shared): time.sleep(0.5); return list(shared)
process_task_return(n) ==
    /\ sm_pc \in {"process_submit", "process_results"}
    /\ sm_call[n] = "sleep"
    /\ sm_result' = [sm_result EXCEPT ![n] = List(shared)]
    /\ sm_future' = [sm_future EXCEPT ![n] = "FINISHED"]
    /\ sm_call' = [sm_call EXCEPT ![n] = "none"]
    /\ UNCHANGED <<sm_pc, shared_list, shared, sm_queue, sm_printed, sm_final, outsideSm>>

\* for f in futures: print(f.result())
process_results ==
    /\ sm_pc = "process_results"
    /\ LET n == Len(sm_printed)
       IN  /\ sm_future[n] = "FINISHED"
           /\ sm_printed' = Append(sm_printed, sm_result[n])
           /\ sm_pc' = IF n = sm_range - 1 THEN "process_final" ELSE "process_results"
    /\ UNCHANGED <<shared_list, shared, sm_queue, sm_call, sm_future, sm_result,
                   sm_final, outsideSm>>

\* the with block is left; print("Final shared list:", list(shared))
process_final ==
    /\ sm_pc = "process_final"
    /\ \A n \in SmArgs : sm_future[n] = "FINISHED"
    /\ sm_final' = [sm_final EXCEPT !.process = List(shared)]
    /\ sm_pc' = "done"
    /\ UNCHANGED <<shared_list, shared, sm_queue, sm_call, sm_future, sm_result,
                   sm_printed, outsideSm>>

(***************************************************************************)
(* processpool_01_pickle.py                                                *)
(* main() runs four sections, each on its own pool of two processes.  A    *)
(* submitted call reaches a process pickled: the function by its module    *)
(* and qualified name, the argument by value.  A call that cannot be       *)
(* pickled never reaches a process: the error is set on its Future and     *)
(* raised by result().                                                     *)
(***************************************************************************)
\* ProcessPoolExecutor(max_workers=2)
pk_max_workers == 2

\* range(5)
pk_range == 5
PkArgs == 0 .. (pk_range - 1)

\* the four sections of main()
pk_sections == 4

\* the function each section submits, with the qualified name Python gives it
PkFunction(section) ==
    CASE section = 1 -> [qualname |-> <<"top_level_task">>]
      [] section = 2 -> [qualname |-> <<"main", "<locals>", "nested_task">>]
      [] section = 3 -> [qualname |-> <<"main", "<locals>", "<lambda>">>]
      [] section = 4 -> [qualname |-> <<"compute">>]

\* the argument of the i-th call: i, and in section 4 Picklable(i)
PkArgument(section, i) ==
    IF section = 4 THEN [class |-> <<"Picklable">>, val |-> i]
                   ELSE [class |-> <<"int">>, val |-> i]

\* the names defined at the top level of the module
PkModuleNames == {<<"top_level_task">>, <<"compute">>, <<"Picklable">>, <<"int">>}

pk_picklable_any(fn) == TRUE

\* pickle stores a function by reference: it can be pickled when its
\* qualified name is found at the top level of its module
pk_picklable(fn) == fn.qualname \in PkModuleNames

\* pickle.dumps of the call (fn, arg)
pk_dumps(fn, arg) == [fn |-> fn.qualname, class |-> arg.class, state |-> arg.val]

\* the function a pickled name denotes in the process, applied to the
\* unpickled argument: top_level_task(n) = n * n, compute(obj) = obj.val * 2
pk_apply(pickled) ==
    CASE pickled.fn = <<"top_level_task">> -> pickled.state * pickled.state
      [] pickled.fn = <<"compute">>        -> pickled.state * 2
      [] OTHER                             -> pickled.state * pickled.state

PkPoolQuiet ==
    /\ pk_work = <<>>
    /\ pk_call_queue = <<>>
    /\ \A i \in PkArgs : pk_call[i] = None

\* futures = [executor.submit(fn, arg) for ...]: one submit() of the loop
pk_submit ==
    /\ pk_pc = "submit"
    /\ LET i == Cardinality({j \in PkArgs : pk_future[j] # "NONE"})
       IN  /\ pk_future' = [pk_future EXCEPT ![i] = "PENDING"]
           /\ pk_work' = Append(pk_work, i)
           /\ pk_pc' = IF i = pk_range - 1 THEN "results" ELSE "submit"
    /\ UNCHANGED <<pk_section, pk_call_queue, pk_call, pk_value, pk_order, pk_results,
                   pk_raised, pk_out, outsidePk>>

\* the executor moves the next work item into the call queue, pickling it;
\* if it cannot be pickled the error is set on the Future
pk_feed ==
    /\ pk_work # <<>>
    /\ LET i == Head(pk_work)
           fn == PkFunction(pk_section)
       IN  IF pk_picklable(fn)
           THEN /\ pk_call_queue' = Append(pk_call_queue,
                        [i |-> i, call |-> pk_dumps(fn, PkArgument(pk_section, i))])
                /\ UNCHANGED <<pk_future, pk_order>>
           ELSE /\ pk_future' = [pk_future EXCEPT ![i] = "FAILED"]
                /\ pk_order' = Append(pk_order, i)
                /\ UNCHANGED pk_call_queue
    /\ pk_work' = Tail(pk_work)
    /\ UNCHANGED <<pk_section, pk_pc, pk_call, pk_value, pk_results, pk_raised, pk_out,
                   outsidePk>>

\* one of the two processes is idle and takes the next pickled call
pk_take ==
    /\ pk_call_queue # <<>>
    /\ Cardinality({i \in PkArgs : pk_call[i] # None}) < pk_max_workers
    /\ LET item == Head(pk_call_queue)
       IN  /\ pk_call' = [pk_call EXCEPT ![item.i] = item.call]
           /\ pk_future' = [pk_future EXCEPT ![item.i] = "RUNNING"]
    /\ pk_call_queue' = Tail(pk_call_queue)
    /\ UNCHANGED <<pk_section, pk_pc, pk_work, pk_value, pk_order, pk_results, pk_raised,
                   pk_out, outsidePk>>

\* the process has run the call for i: the result is set on the Future
pk_finish(i) ==
    /\ pk_call[i] # None
    /\ pk_value' = [pk_value EXCEPT ![i] = pk_apply(pk_call[i])]
    /\ pk_future' = [pk_future EXCEPT ![i] = "FINISHED"]
    /\ pk_order' = Append(pk_order, i)
    /\ pk_call' = [pk_call EXCEPT ![i] = None]
    /\ UNCHANGED <<pk_section, pk_pc, pk_work, pk_call_queue, pk_results, pk_raised,
                   pk_out, outsidePk>>

pk_result_as_completed ==
    /\ pk_pc = "results"
    /\ Len(pk_results) < Len(pk_order)
    /\ LET i == pk_order[Len(pk_results) + 1]
       IN  IF pk_future[i] = "FINISHED"
           THEN /\ pk_results' = Append(pk_results, pk_value[i])
                /\ pk_pc' = IF Len(pk_results') = pk_range THEN "print" ELSE "results"
                /\ UNCHANGED pk_raised
           ELSE /\ pk_raised' = TRUE
                /\ pk_pc' = "exit"
                /\ UNCHANGED pk_results
    /\ UNCHANGED <<pk_section, pk_work, pk_call_queue, pk_call, pk_future, pk_value,
                   pk_order, pk_out, outsidePk>>

\* results = [f.result() for f in futures]: one f.result() of the loop, in
\* the order of futures; it waits for the Future and raises its error
pk_result ==
    /\ pk_pc = "results"
    /\ LET i == Len(pk_results)
       IN  /\ pk_future[i] \in {"FINISHED", "FAILED"}
           /\ IF pk_future[i] = "FINISHED"
              THEN /\ pk_results' = Append(pk_results, pk_value[i])
                   /\ pk_pc' = IF i = pk_range - 1 THEN "print" ELSE "results"
                   /\ UNCHANGED pk_raised
              ELSE /\ pk_raised' = TRUE
                   /\ pk_pc' = "exit"
                   /\ UNCHANGED pk_results
    /\ UNCHANGED <<pk_section, pk_work, pk_call_queue, pk_call, pk_future, pk_value,
                   pk_order, pk_out, outsidePk>>

\* print(f"Results: {results}")
pk_print_results ==
    /\ pk_pc = "print"
    /\ pk_out' = Append(pk_out, [section |-> pk_section, line |-> "Results",
                                 results |-> pk_results])
    /\ pk_pc' = "exit"
    /\ UNCHANGED <<pk_section, pk_work, pk_call_queue, pk_call, pk_future, pk_value,
                   pk_order, pk_results, pk_raised, outsidePk>>

\* the with block is left, normally or by the exception: shutdown(wait=True)
\* returns when the pool has no work item left
pk_exit_with ==
    /\ pk_pc = "exit"
    /\ PkPoolQuiet
    /\ pk_pc' = IF pk_raised THEN "except" ELSE "next"
    /\ UNCHANGED <<pk_section, pk_work, pk_call_queue, pk_call, pk_future, pk_value,
                   pk_order, pk_results, pk_raised, pk_out, outsidePk>>

\* except Exception as e: print(f"Caught exception: {e}"), which only the
\* sections 2 and 3 have; elsewhere the exception ends main()
pk_except ==
    /\ pk_pc = "except"
    /\ IF pk_section \in {2, 3}
       THEN /\ pk_out' = Append(pk_out, [section |-> pk_section,
                                         line |-> "Caught exception", results |-> <<>>])
            /\ pk_raised' = FALSE
            /\ pk_pc' = "next"
       ELSE /\ pk_pc' = "uncaught"
            /\ UNCHANGED <<pk_out, pk_raised>>
    /\ UNCHANGED <<pk_section, pk_work, pk_call_queue, pk_call, pk_future, pk_value,
                   pk_order, pk_results, outsidePk>>

\* the next section starts with a new pool; after the last one
\* print("Demo complete. ...")
pk_next ==
    /\ pk_pc = "next"
    /\ IF pk_section < pk_sections
       THEN /\ pk_section' = pk_section + 1
            /\ pk_pc' = "submit"
            /\ pk_future' = [i \in PkArgs |-> "NONE"]
            /\ pk_value' = [i \in PkArgs |-> 0]
            /\ pk_order' = <<>>
            /\ pk_results' = <<>>
            /\ UNCHANGED pk_out
       ELSE /\ pk_out' = Append(pk_out, [section |-> pk_section,
                                         line |-> "Demo complete", results |-> <<>>])
            /\ pk_pc' = "done"
            /\ UNCHANGED <<pk_section, pk_future, pk_value, pk_order, pk_results>>
    /\ UNCHANGED <<pk_work, pk_call_queue, pk_call, pk_raised, outsidePk>>

(***************************************************************************)
(* Python values: str.  A string is the sequence of its characters.        *)
(***************************************************************************)
ascii_lowercase == <<"a", "b", "c", "d", "e", "f", "g", "h", "i", "j", "k", "l", "m",
                     "n", "o", "p", "q", "r", "s", "t", "u", "v", "w", "x", "y", "z">>
ascii_uppercase == <<"A", "B", "C", "D", "E", "F", "G", "H", "I", "J", "K", "L", "M",
                     "N", "O", "P", "Q", "R", "S", "T", "U", "V", "W", "X", "Y", "Z">>
digits == <<"0", "1", "2", "3", "4", "5", "6", "7", "8", "9">>

Chars(s) == {s[i] : i \in DOMAIN s}

ascii_letters == Chars(ascii_lowercase) \cup Chars(ascii_uppercase)

(***************************************************************************)
(* pydantic/03_annotated.py                                                *)
(* User(uid, username, email, age): the four fields are validated in the   *)
(* order they are declared, each against the constraints of its Field.  A  *)
(* field that fails adds one error and validation goes on with the next    *)
(* field; at the end the errors, if any, are raised as one ValidationError.*)
(***************************************************************************)
AnFields == <<"uid", "username", "email", "age">>

\* the call of lines 23-28
AnScriptData ==
    [uid |-> 0, username |-> <<"c", "s">>,
     email |-> <<"a", "d", "i", "t", "y", "a", "@", "e", "m", "a", "i", "l", ".", "c", "o", "m">>,
     age |-> 12]

\* the arguments the call is made with: every constraint on both sides
AnData ==
    [uid : {-1, 0, 1},
     username : {<<"c", "s">>, <<"a", "d", "i", "t", "y", "a">>, [i \in 1 .. 21 |-> "a"]},
     email : {AnScriptData.email,
              <<"a", "d", "i", "t", "y", "a", ".", "e", "m", "a", "i", "l", ".", "c", "o", "m">>,
              <<"a", "d", "i", "t", "y", "a", "@", "e", "m", "a", "i", "l", ".", "c">>},
     age : {12, 13, 130, 131}]

gt(v, bound) == v > bound
ge(v, bound) == v >= bound
le(v, bound) == v <= bound
min_length(v, bound) == Len(v) >= bound
max_length(v, bound) == Len(v) <= bound

\* ^[a-zA-Z0-9._%+-]+@[a-zA-Z0-9.-]+\.[a-zA-Z]{2,}$
email_pattern(v) ==
    \E at, dot \in 1 .. Len(v) :
        /\ v[at] = "@" /\ v[dot] = "."
        /\ at > 1
        /\ \A i \in 1 .. at - 1 :
              v[i] \in ascii_letters \cup Chars(digits) \cup {".", "_", "%", "+", "-"}
        /\ dot > at + 1
        /\ \A i \in at + 1 .. dot - 1 : v[i] \in ascii_letters \cup Chars(digits) \cup {".", "-"}
        /\ Len(v) - dot >= 2
        /\ \A i \in dot + 1 .. Len(v) : v[i] \in ascii_letters

AnError(field, type) == <<[loc |-> field, type |-> type]>>

uid_errors(v) ==
    IF gt(v, 0) THEN <<>> ELSE AnError("uid", "greater_than")

username_errors(v) ==
    IF ~min_length(v, 3) THEN AnError("username", "string_too_short")
    ELSE IF ~max_length(v, 20) THEN AnError("username", "string_too_long")
    ELSE <<>>

email_errors(v) ==
    IF email_pattern(v) THEN <<>> ELSE AnError("email", "string_pattern_mismatch")

age_errors(v) ==
    IF ~ge(v, 13) THEN AnError("age", "greater_than_equal")
    ELSE IF ~le(v, 130) THEN AnError("age", "less_than_equal")
    ELSE <<>>

\* where validation goes after the k-th field, having collected `errors`
an_after_field_fail_fast(k, errors) ==
    IF k < Len(AnFields) /\ errors = <<>> THEN AnFields[k + 1] ELSE "end"

an_after_field(k, errors) ==
    IF k < Len(AnFields) THEN AnFields[k + 1] ELSE "end"

\* lines 23-28: user = User(uid=..., username=..., email=..., age=...)
an_User ==
    /\ an_pc = "call"
    /\ \E data \in AnData : an_data' = data
    /\ an_errors' = <<>>
    /\ an_pc' = AnFields[1]
    /\ UNCHANGED <<an_user, an_exc, an_out, outsideAn>>

an_uid ==
    /\ an_pc = "uid"
    /\ an_errors' = an_errors \o uid_errors(an_data.uid)
    /\ an_pc' = an_after_field(1, an_errors')
    /\ UNCHANGED <<an_data, an_user, an_exc, an_out, outsideAn>>

an_username ==
    /\ an_pc = "username"
    /\ an_errors' = an_errors \o username_errors(an_data.username)
    /\ an_pc' = an_after_field(2, an_errors')
    /\ UNCHANGED <<an_data, an_user, an_exc, an_out, outsideAn>>

an_email ==
    /\ an_pc = "email"
    /\ an_errors' = an_errors \o email_errors(an_data.email)
    /\ an_pc' = an_after_field(3, an_errors')
    /\ UNCHANGED <<an_data, an_user, an_exc, an_out, outsideAn>>

an_age ==
    /\ an_pc = "age"
    /\ an_errors' = an_errors \o age_errors(an_data.age)
    /\ an_pc' = an_after_field(4, an_errors')
    /\ UNCHANGED <<an_data, an_user, an_exc, an_out, outsideAn>>

\* no field failed: the instance is created and bound to `user`
an_return ==
    /\ an_pc = "end"
    /\ an_errors = <<>>
    /\ an_user' = <<an_data>>
    /\ an_pc' = "done"
    /\ UNCHANGED <<an_data, an_errors, an_exc, an_out, outsideAn>>

\* some field failed: one ValidationError carrying all the errors
an_raise ==
    /\ an_pc = "end"
    /\ an_errors # <<>>
    /\ an_exc' = an_errors
    /\ an_pc' = "except"
    /\ UNCHANGED <<an_data, an_errors, an_user, an_out, outsideAn>>

\* lines 29-30: except ValidationError as e: print(e)
an_except ==
    /\ an_pc = "except"
    /\ an_out' = Append(an_out, [title |-> "User", count |-> Len(an_exc), errors |-> an_exc])
    /\ an_pc' = "done"
    /\ UNCHANGED <<an_data, an_errors, an_user, an_exc, outsideAn>>

(***************************************************************************)
(* fastapi/concepts/00_basic.py                                            *)
(* Importing the module creates the application and registers one route    *)
(* per @app.get decorator; stacked decorators are applied from the one     *)
(* nearest to the function outwards.  A request is answered by the first   *)
(* registered route with its path and method; when only the path is found  *)
(* the answer is 405, when nothing is found 404.  The routes the framework *)
(* adds by itself (the documentation pages of line 26) are left out, and   *)
(* no request below is for them.                                           *)
(***************************************************************************)
\* requests served in one behaviour
MaxRequests == 3

ApiMethods == {"GET", "POST"}
\* the three decorated paths and one path the script does not mention
ApiPaths == {"/", "/about", "/info", "/contact"}

\* line 10: the dict home() returns, as its key/value pairs
home == <<<<"message", "Hello World!">>>>
\* line 21: the str about() returns
about == "<h1>This is the HTML response page</h1>"

\* JSONResponse.render: the text of a dict of strings, piece by piece
RECURSIVE json_members(_)
json_members(pairs) ==
    IF pairs = <<>> THEN <<>>
    ELSE <<"\"", pairs[1][1], "\"", ":", "\"", pairs[1][2], "\"">>
         \o (IF Len(pairs) > 1 THEN <<",">> ELSE <<>>)
         \o json_members(Tail(pairs))

JSONResponse(content) ==
    [media_type |-> "application/json", body |-> <<"{">> \o json_members(content) \o <<"}">>]

HTMLResponse(content) ==
    [media_type |-> "text/html", body |-> <<content>>]

\* the decorator app.get(path, response_class=...) applied to an endpoint
add_api_route_replacing(routes, path, endpoint, response_class) ==
    SelectSeq(routes, LAMBDA r : r.endpoint # endpoint)
        \o <<[path |-> path, methods |-> {"GET"}, endpoint |-> endpoint,
              response_class |-> response_class]>>

add_api_route(routes, path, endpoint, response_class) ==
    Append(routes, [path |-> path, methods |-> {"GET"}, endpoint |-> endpoint,
                    response_class |-> response_class])

\* the endpoint of the route is called and its value rendered
ApiRun(route) ==
    LET response ==
            CASE route.endpoint = "home" -> JSONResponse(home)
              [] route.endpoint = "about" ->
                    IF route.response_class = "HTMLResponse"
                    THEN HTMLResponse(about)
                    ELSE [media_type |-> "application/json", body |-> <<"\"", about, "\"">>]
    IN  [status |-> 200, endpoint |-> route.endpoint,
         media_type |-> response.media_type, body |-> response.body]

\* the first registered route with the path and the method answers; 405
\* when routes have the path but not the method, 404 when none has the path
ApiRespond(method, path) ==
    LET partial == {k \in 1 .. Len(api_routes) : api_routes[k].path = path}
        full    == {k \in partial : method \in api_routes[k].methods}
    IN  IF full # {}
        THEN ApiRun(api_routes[CHOOSE k \in full : \A j \in full : k <= j])
        ELSE [status |-> IF partial # {} THEN 405 ELSE 404, endpoint |-> "",
              media_type |-> "application/json", body |-> <<>>]

\* line 4: app = FastAPI()
FastAPI ==
    /\ api_pc = "app"
    /\ api_routes' = <<>>
    /\ api_pc' = "home"
    /\ UNCHANGED <<api_log, outsideApi>>

\* lines 7-8: @app.get("/") def home()
get_home ==
    /\ api_pc = "home"
    /\ api_routes' = add_api_route(api_routes, "/", "home", "JSONResponse")
    /\ api_pc' = "info"
    /\ UNCHANGED <<api_log, outsideApi>>

\* lines 19-20: @app.get("/info", response_class=HTMLResponse) def about()
get_info ==
    /\ api_pc = "info"
    /\ api_routes' = add_api_route(api_routes, "/info", "about", "HTMLResponse")
    /\ api_pc' = "about"
    /\ UNCHANGED <<api_log, outsideApi>>

\* line 18: @app.get("/about", response_class=HTMLResponse), applied to the
\* function the decorator of line 19 returned
get_about ==
    /\ api_pc = "about"
    /\ api_routes' = add_api_route(api_routes, "/about", "about", "HTMLResponse")
    /\ api_pc' = "serving"
    /\ UNCHANGED <<api_log, outsideApi>>

\* line 24: the application serves one request
api_request ==
    /\ api_pc = "serving"
    /\ Len(api_log) < MaxRequests
    /\ \E method \in ApiMethods, path \in ApiPaths :
          api_log' = Append(api_log, [method |-> method, path |-> path,
                                      response |-> ApiRespond(method, path)])
    /\ UNCHANGED <<api_pc, api_routes, outsideApi>>

(***************************************************************************)
(* pydantic/05_custom_validator.py                                         *)
(* The username field of User: the value is checked against the length     *)
(* constraints of its Field, and a value that passes is handed to          *)
(* validate_username, whose return value becomes the field.  The other     *)
(* fields of User and the class UserRegistration are left out.             *)
(***************************************************************************)
\* str.replace(old, new) for a one-character old
RECURSIVE replace(_, _, _)
replace(v, old, new) ==
    IF v = <<>> THEN <<>>
    ELSE (IF Head(v) = old THEN new ELSE <<Head(v)>>) \o replace(Tail(v), old, new)

\* str.isalnum(): not empty, and every character a letter or a digit
isalnum(v) ==
    /\ v # <<>>
    /\ \A c \in Chars(v) : c \in ascii_letters \cup Chars(digits)

\* str.lower()
lower(v) ==
    [i \in DOMAIN v |->
        IF v[i] \in Chars(ascii_uppercase)
        THEN ascii_lowercase[CHOOSE k \in DOMAIN ascii_uppercase : ascii_uppercase[k] = v[i]]
        ELSE v[i]]

\* the usernames User(...) is called with: the one of line 79, every string
\* of two or three characters over a letter of each case, a digit, the
\* underscore and the hyphen, and one of 21 characters
CvUsernames ==
    LET alphabet == {"a", "Z", "7", "_", "-"}
    IN  {<<"A", "d", "i", "t", "y", "a", "_", "P", "m">>, [i \in 1 .. 21 |-> "a"]}
            \cup [1 .. 2 -> alphabet] \cup [1 .. 3 -> alphabet]

CvOutcome(kind, value) == [kind |-> kind, value |-> value]

\* lines 30-35
validate_username(v) ==
    IF ~isalnum(replace(v, "_", <<>>))
    THEN CvOutcome("ValueError", <<>>)
    ELSE CvOutcome("value", lower(v))

\* line 78: user = User(username=..., ...)
cv_User ==
    /\ cv_pc = "call"
    /\ \E v \in CvUsernames : cv_v' = v
    /\ cv_pc' = "field"
    /\ UNCHANGED <<cv_outcome, outsideCv>>

\* line 17: the value has fewer than 3 or more than 20 characters
cv_username_rejected ==
    /\ cv_pc = "field"
    /\ ~(min_length(cv_v, 3) /\ max_length(cv_v, 20))
    /\ cv_outcome' = CvOutcome(IF ~min_length(cv_v, 3) THEN "string_too_short"
                                                     ELSE "string_too_long", <<>>)
    /\ cv_pc' = "done"
    /\ UNCHANGED <<cv_v, outsideCv>>

\* line 17: the value passes, the validator of line 30 runs next
cv_username_passed ==
    /\ cv_pc = "field"
    /\ min_length(cv_v, 3) /\ max_length(cv_v, 20)
    /\ cv_pc' = "validator"
    /\ UNCHANGED <<cv_v, cv_outcome, outsideCv>>

\* lines 30-35: validate_username(cls, v)
cv_validate_username ==
    /\ cv_pc = "validator"
    /\ cv_outcome' = validate_username(cv_v)
    /\ cv_pc' = "done"
    /\ UNCHANGED <<cv_v, outsideCv>>

(***************************************************************************)
(* pydantic/06_computed_field.py                                           *)
(* An instance of User holds its declared fields.  display_name and        *)
(* is_influencer are properties: reading one, as print() and               *)
(* model_dump_json() do, runs the function on the fields the instance has  *)
(* at that moment.  Fields of an instance can be assigned to.              *)
(***************************************************************************)
\* assignments made to the fields of one instance
MaxAssignments == 2

Aditya_Pm == <<"A", "d", "i", "t", "y", "a", "_", "P", "m">>
Aditya == <<"A", "d", "i", "t", "y", "a">>
Menon == <<"M", "e", "n", "o", "n">>

\* the values a field is given: those of lines 14-16, 35, 41 and both sides
\* of the threshold of line 30
CfValues ==
    [username : {Aditya_Pm}, first_name : {<<>>, Aditya}, last_name : {<<>>, Menon},
     follower_count : {0, 9999, 10000}]

\* lines 20-25
display_name(self) ==
    IF self.first_name # <<>> /\ self.last_name # <<>>
    THEN self.first_name \o <<" ">> \o self.last_name
    ELSE self.username

\* lines 27-30
is_influencer(self) == self.follower_count >= 10000

\* lines 35, 41: User(username=..., first_name=..., last_name=...)
cf_User ==
    /\ cf_pc = "call"
    /\ \E self \in CfValues :
          /\ cf_created' = self
          /\ cf_user' = self
    /\ cf_pc' = "user"
    /\ UNCHANGED <<cf_assigned, cf_read, outsideCf>>

\* user.<field> = value, for a field of lines 14-16
cf_setattr ==
    /\ cf_pc = "user"
    /\ cf_assigned < MaxAssignments
    /\ \E self \in CfValues :
          /\ Cardinality({name \in DOMAIN self : self[name] # cf_user[name]}) = 1
          /\ cf_user' = self
    /\ cf_assigned' = cf_assigned + 1
    /\ UNCHANGED <<cf_pc, cf_created, cf_read, outsideCf>>

\* lines 36, 42, 48: print(user), user.model_dump_json()
cf_print ==
    /\ cf_pc = "user"
    /\ cf_read' = [read |-> TRUE, display_name |-> display_name(cf_user),
                   is_influencer |-> is_influencer(cf_user)]
    /\ UNCHANGED <<cf_pc, cf_created, cf_user, cf_assigned, outsideCf>>

(***************************************************************************)
(* Initial state: the functions have been defined, nothing has been called *)
(***************************************************************************)
InitEmployees ==
    /\ add_employee_defaults = List(<<>>)
    /\ emps = List(<<"John", "Jane">>)
    /\ emp_log = <<>>
    /\ add_employee_fixed_defaults = None
    /\ fixed_log = <<>>

\* the default of display_time is datetime.now() at the moment of the def
InitTime ==
    /\ clock \in 0 .. (TicksPerSec - 1)
    /\ display_time_defaults = clock
    /\ time_log = <<>>
    /\ time_fixed_log = <<>>

\* basic_threadpool.py: the executor has been created, nothing submitted
InitPool ==
    /\ pc = "submit"
    /\ submitted = 0
    /\ work_queue = <<>>
    /\ shutdown_flag = FALSE
    /\ idle_semaphore = 0
    /\ thread = [t \in Threads |-> [state |-> "unborn", item |-> 0]]
    /\ future = [n \in Tasks |-> "NONE"]
    /\ future_result = [n \in Tasks |-> None]
    /\ run_count = [n \in Tasks |-> 0]
    /\ start_order = <<>>
    /\ main_out = <<>>

\* processpool_03: my_obj = MyData(10, 20) has been copied into the Namespace
InitNs ==
    /\ ns_pc = "submit"
    /\ my_obj = [x |-> 10, y |-> 20]
    /\ shared_data = [x |-> my_obj.x, y |-> my_obj.y]
    /\ lock = 0
    /\ call_queue = <<>>
    /\ proc = [p \in Procs |-> Idle]
    /\ ns_future = [i \in Deltas |-> "NONE"]
    /\ ns_result = [i \in Deltas |-> <<>>]
    /\ ns_out = <<>>

\* processpool_02: shared_list = [], the thread pool has been created
InitSm ==
    /\ sm_pc = "thread_map"
    /\ shared_list = <<>>
    /\ shared = <<>>
    /\ sm_queue = <<>>
    /\ sm_call = [n \in SmArgs |-> "none"]
    /\ sm_future = [n \in SmArgs |-> "NONE"]
    /\ sm_result = [n \in SmArgs |-> None]
    /\ sm_printed = <<>>
    /\ sm_final = [thread |-> None, process |-> None]

\* processpool_01: main() is entering its first section
InitPk ==
    /\ pk_section = 1
    /\ pk_pc = "submit"
    /\ pk_work = <<>>
    /\ pk_call_queue = <<>>
    /\ pk_call = [i \in PkArgs |-> None]
    /\ pk_future = [i \in PkArgs |-> "NONE"]
    /\ pk_value = [i \in PkArgs |-> 0]
    /\ pk_order = <<>>
    /\ pk_results = <<>>
    /\ pk_raised = FALSE
    /\ pk_out = <<>>

InitAn ==
    /\ an_pc = "call"
    /\ an_data = AnScriptData
    /\ an_errors = <<>>
    /\ an_user = <<>>
    /\ an_exc = <<>>
    /\ an_out = <<>>

InitApi ==
    /\ api_pc = "app"
    /\ api_routes = <<>>
    /\ api_log = <<>>

InitCv ==
    /\ cv_pc = "call"
    /\ cv_v = <<>>
    /\ cv_outcome = CvOutcome("none", <<>>)

InitCf ==
    /\ cf_pc = "call"
    /\ cf_created = [username |-> Aditya_Pm, first_name |-> <<>>, last_name |-> <<>>,
                     follower_count |-> 0]
    /\ cf_user = cf_created
    /\ cf_assigned = 0
    /\ cf_read = [read |-> FALSE, display_name |-> <<>>, is_influencer |-> FALSE]

Init == InitEmployees /\ InitTime /\ InitPool /\ InitNs /\ InitSm /\ InitPk /\ InitAn /\ InitApi /\ InitCv /\ InitCf


NextEmployees ==
    \/ \E emp \in Employees : add_employee(emp)
    \/ \E emp \in Employees : add_employee_explicit(emp)
    \/ \E emp \in Employees : add_employee_fixed(emp)

NextTime ==
    \/ display_time
    \/ display_time_fixed
    \/ Tick
    \/ sleep

MainThread ==
    \/ submit
    \/ print_message
    \/ print_before
    \/ result
    \/ print_after
    \/ exit_with
    \/ join
    \/ print_time

WorkerThread(t) ==
    \/ worker_idle(t)
    \/ worker_start(t)
    \/ worker_finish(t)
    \/ worker_exit(t)

NextPool ==
    \/ MainThread
    \/ \E t \in Threads : WorkerThread(t)

NextNs ==
    \/ ns_submit
    \/ ns_result_loop
    \/ ns_copy_x
    \/ ns_copy_y
    \/ \E p \in Procs :
          \/ modify_data_call(p)
          \/ modify_data_acquire(p)
          \/ modify_data_print(p)
          \/ modify_data_read_x(p)
          \/ modify_data_write_x(p)
          \/ modify_data_read_y(p)
          \/ modify_data_write_y(p)
          \/ modify_data_return(p)

\* processpool_03 with modify_data run without the lock
NextNsNoLock ==
    \/ ns_submit
    \/ ns_result_loop
    \/ ns_copy_x
    \/ ns_copy_y
    \/ \E p \in Procs :
          \/ modify_data_call(p)
          \/ modify_data_unlocked(p)
          \/ modify_data_print(p)
          \/ modify_data_read_x(p)
          \/ modify_data_write_x(p)
          \/ modify_data_read_y(p)
          \/ modify_data_write_y(p)
          \/ modify_data_return(p)

NextSm ==
    \/ thread_map
    \/ thread_results
    \/ thread_final
    \/ process_submit
    \/ process_results
    \/ process_final
    \/ sm_take
    \/ \E n \in SmArgs :
          \/ thread_task_append(n)
          \/ thread_task_return(n)
          \/ process_task_append(n)
          \/ process_task_return(n)

PkMain ==
    \/ pk_submit
    \/ pk_result
    \/ pk_print_results
    \/ pk_exit_with
    \/ pk_except
    \/ pk_next

PkPool ==
    \/ pk_feed
    \/ pk_take
    \/ \E i \in PkArgs : pk_finish(i)

NextPk ==
    \/ PkMain
    \/ PkPool

NextAn ==
    \/ an_User
    \/ an_uid
    \/ an_username
    \/ an_email
    \/ an_age
    \/ an_return
    \/ an_raise
    \/ an_except

NextApi ==
    \/ FastAPI
    \/ get_home
    \/ get_info
    \/ get_about
    \/ api_request

NextCv ==
    \/ cv_User
    \/ cv_username_rejected
    \/ cv_username_passed
    \/ cv_validate_username

NextCf ==
    \/ cf_User
    \/ cf_setattr
    \/ cf_print

SpecEmployees == Init /\ [][NextEmployees]_vars
SpecTime      == Init /\ [][NextTime]_vars
SpecNs        == Init /\ [][NextNs]_vars
SpecSm        == Init /\ [][NextSm]_vars
SpecPk        == Init /\ [][NextPk]_vars
\* main() and the pool's processes are scheduled in the end
FairSpecPk    == SpecPk /\ WF_vars(PkMain) /\ WF_vars(pk_feed) /\ WF_vars(pk_take)
                        /\ \A i \in PkArgs : WF_vars(pk_finish(i))
SpecAn        == Init /\ [][NextAn]_vars
SpecApi       == Init /\ [][NextApi]_vars
SpecCv        == Init /\ [][NextCv]_vars
SpecCf        == Init /\ [][NextCf]_vars
SpecNsNoLock  == Init /\ [][NextNsNoLock]_vars
SpecPool      == Init /\ [][NextPool]_vars
\* every thread that can take a step is scheduled in the end
FairSpecPool  == SpecPool /\ WF_vars(MainThread) /\ \A t \in Threads : WF_vars(WorkerThread(t))

(***************************************************************************)
(* mutable_default_arguments.py: properties                                *)
(***************************************************************************)
\* the add_employee calls made without emp_list, in call order
DefaultCalls == SelectSeq(emp_log, LAMBDA r : r.dflt)
PassedUpTo(k) == [i \in 1 .. k |-> DefaultCalls[i].emp]

\* C1: after k calls of add_employee without emp_list the default list
\* add_employee.__defaults__[0] holds exactly the k employees passed, in call
\* order, and the k-th such call printed the list accumulated up to it.
C1_SharedDefaultAccumulates ==
    /\ add_employee_defaults.items = PassedUpTo(Len(DefaultCalls))
    /\ \A k \in 1 .. Len(DefaultCalls) : DefaultCalls[k].printed = PassedUpTo(k)

\* three default calls around a call with an explicit list
C1_Witness ==
    /\ Len(DefaultCalls) = 3
    /\ Len(emp_log) = 4
    /\ ~emp_log[2].dflt
    /\ DefaultCalls[1].emp # DefaultCalls[2].emp

\* C2: every add_employee_fixed call made without emp_list printed a list
\* holding only the employee of that call, and add_employee_fixed.__defaults__
\* is (None,) in every state.
C2_FreshListPerCall ==
    /\ add_employee_fixed_defaults = None
    /\ \A k \in 1 .. Len(fixed_log) : fixed_log[k].printed = <<fixed_log[k].emp>>

C2_Witness ==
    /\ Len(fixed_log) >= 3
    /\ fixed_log[1].emp # fixed_log[2].emp

\* C3 as stated: all display_time calls print the same timestamp; a later
\* display_time_fixed call never prints an earlier timestamp than a previous
\* one, and prints a different one once the clock has advanced.
C3_DifferentOnceClockAdvanced ==
    /\ \A i, j \in 1 .. Len(time_log) : time_log[i].printed = time_log[j].printed
    /\ \A i, j \in 1 .. Len(time_fixed_log) :
          i < j => /\ time_fixed_log[j].printed >= time_fixed_log[i].printed
                   /\ time_fixed_log[j].at > time_fixed_log[i].at
                         => time_fixed_log[j].printed # time_fixed_log[i].printed

\* C3 (amended): all display_time calls print the same timestamp; a later
\* display_time_fixed call never prints an earlier timestamp than a previous
\* one, and prints a different one once the clock has advanced by at least
\* one second (the printed format stops at the second).
C3_DifferentAfterOneSecond ==
    /\ \A i, j \in 1 .. Len(time_log) : time_log[i].printed = time_log[j].printed
    /\ \A i, j \in 1 .. Len(time_fixed_log) :
          i < j => /\ time_fixed_log[j].printed >= time_fixed_log[i].printed
                   /\ time_fixed_log[j].at - time_fixed_log[i].at >= TicksPerSec
                         => time_fixed_log[j].printed # time_fixed_log[i].printed

\* two display_time calls and two display_time_fixed calls, each pair more
\* than a second apart
C3_Witness ==
    /\ Len(time_log) = 2
    /\ time_log[2].at - time_log[1].at >= TicksPerSec
    /\ Len(time_fixed_log) = 2
    /\ time_fixed_log[2].at - time_fixed_log[1].at >= TicksPerSec


(***************************************************************************)
(* basic_threadpool.py: properties                                         *)
(***************************************************************************)
\* a task has started once its Future has been running
started(n) == future[n] \in {"RUNNING", "FINISHED"}
printed(l) == \E k \in 1 .. Len(main_out) : main_out[k].line = l

\* C4: with ThreadPoolExecutor(max_workers=3) and five submitted tasks, at
\* most 3 tasks are executing at the same time in every reachable state.
C4_AtMostThreeRunning ==
    Cardinality({n \in Tasks : running(n)}) <= 3

\* three tasks execute while the two others wait in the queue
C4_Witness ==
    /\ Cardinality({n \in Tasks : running(n)}) = 3
    /\ work_queue = <<4, 5>>

\* C5: tasks 1, 2 and 3 are the first three tasks to start, and neither
\* task 4 nor task 5 has started in a state where none of tasks 1-3 has
\* finished.
C5_FourAndFiveWaitForAWorker ==
    /\ \A k \in 1 .. Len(start_order) : k <= 3 => start_order[k] \in {1, 2, 3}
    /\ \A n \in {4, 5} : started(n) => \E m \in {1, 2, 3} : done(m)

\* task 4 runs on the thread freed by task 1 while tasks 2 and 3 still run
C5_Witness ==
    /\ running(4)
    /\ done(1) /\ running(2) /\ running(3)
    /\ future[5] = "PENDING"

\* C6: the main thread is past task1.result() only when task 1 is done; the
\* line printed after it shows running()=False and done()=True, and the
\* value printed is 'Task 1 completed.'.
C6_ResultBlocksUntilDone ==
    /\ pc \in {"print_after", "exit_with", "join", "print_time", "done"} => done(1)
    /\ \A k \in 1 .. Len(main_out) :
          /\ main_out[k].line = "after" =>
                main_out[k].running = FALSE /\ main_out[k].done = TRUE
          /\ main_out[k].line = "result" =>
                main_out[k].value = Str(<<"Task", 1, "completed.">>)

\* task 1 was still running when the main thread reached result(), and the
\* main thread has printed the line after it
C6_Witness ==
    /\ printed("after")
    /\ \E k \in 1 .. Len(main_out) :
          main_out[k].line = "before" /\ main_out[k].running /\ ~main_out[k].done

\* C7: submit() never waits, and the main thread has printed the
\* '|| I am executed before task4 and task5 starts executing! ||' message in
\* every state where task 4 or task 5 has started.
C7_MessageBeforeFourAndFive ==
    /\ pc = "submit" => ENABLED submit
    /\ (started(4) \/ started(5)) => printed("message")

\* C8: the 'Time take' line is printed only when all five tasks have
\* completed, every task is entered once and no more, and the script always
\* reaches its end.
C8_ShutdownWaitsAndTerminates ==
    /\ [](printed("time") => \A n \in Tasks : done(n) /\ run_count[n] = 1)
    /\ [](\A n \in Tasks : run_count[n] <= 1)
    /\ <>(pc = "done")

\* the script has ended after tasks 4 and 5 were still unfinished when the
\* with block was left
C8_Witness ==
    /\ pc = "done"
    /\ Len(start_order) = NumTasks
    /\ \E k \in 1 .. Len(main_out) : main_out[k].line = "time"


(***************************************************************************)
(* processpool_03_shared_memory_custom_objects.py: properties              *)
(***************************************************************************)
\* the processes between acquiring the lock and returning from modify_data
InsideLock == {p \in Procs : proc[p].at \in {"print", "read_x", "write_x", "read_y",
                                              "write_y", "return"}}

\* C9: in every reachable state at most one modify_data call is between
\* acquiring the lock and returning.
C9_OneProcessInsideLock ==
    Cardinality(InsideLock) <= 1

\* one process is updating the Namespace while the two others wait for the lock
C9_Witness ==
    \E p \in Procs :
       /\ proc[p].at = "write_y"
       /\ \A q \in Procs \ {p} : proc[q].at = "with_lock"

\* C10: once the three calls have finished the Namespace holds x = 16 and
\* y = 26, and these are the values copied back into my_obj.
C10_NoIncrementLost ==
    /\ (\A i \in Deltas : ns_future[i] = "FINISHED") =>
          shared_data.x = 16 /\ shared_data.y = 26
    /\ ns_pc = "done" => my_obj.x = 16 /\ my_obj.y = 26

\* the script has ended after the three calls were taken by three processes
\* and ran in an order other than the order of submission
C10_Witness ==
    /\ ns_pc = "done"
    /\ ns_out[1] = <<16, 26>>


\* C11: without the lock the read-then-write updates of the three processes
\* can overwrite each other.  Whatever the interleaving, once the three calls
\* have finished x is 10 and y is 20 plus the deltas that were not lost, at
\* least one and at most all of them; C11_Witness is the interleaving in
\* which an increment is lost.
C11_OnlyLossesWithoutLock ==
    (\A i \in Deltas : ns_future[i] = "FINISHED") =>
        /\ shared_data.x \in 11 .. 16
        /\ shared_data.y \in 21 .. 26

\* the three calls have finished, an increment of x is lost, and x and y are
\* inconsistent with each other
C11_Witness ==
    /\ ns_pc = "done"
    /\ my_obj.x < 16
    /\ my_obj.x - 10 # my_obj.y - 20


(***************************************************************************)
(* processpool_02_shared_memory.py: properties                             *)
(***************************************************************************)
Elements(l) == {l.items[i] : i \in 1 .. Len(l.items)}
IsPermutationOfArgs(l) == Len(l.items) = 5 /\ Elements(l) = 0 .. 4

\* C12: in the thread section and in the process section the final list
\* printed is a permutation of 0..4, each n exactly once, and the snapshot
\* returned by the call for n contains n.
C12_AppendsAreShared ==
    /\ sm_final.thread # None => IsPermutationOfArgs(sm_final.thread)
    /\ sm_final.process # None => IsPermutationOfArgs(sm_final.process)
    /\ \A n \in SmArgs : sm_future[n] = "FINISHED" => n \in Elements(sm_result[n])

\* both sections have ended, each with a list that is not in the order of
\* submission, and the snapshot of the call for 0 held more than its own 0
C12_Witness ==
    /\ sm_pc = "done"
    /\ sm_final.thread.items # <<0, 1, 2, 3, 4>>
    /\ sm_final.process.items # <<0, 1, 2, 3, 4>>
    /\ Len(sm_result[0].items) > 1


(***************************************************************************)
(* processpool_01_pickle.py: properties                                    *)
(***************************************************************************)
PkPrinted(section, line) ==
    \E k \in 1 .. Len(pk_out) : pk_out[k].section = section /\ pk_out[k].line = line

\* C13: the results list printed by the top-level-function section is
\* [0, 1, 4, 9, 16] and the one printed by the Picklable section is
\* [0, 2, 4, 6, 8]: the function applied to each argument, in submission
\* order, whichever process ran a call and in whatever order calls completed.
C13_ResultsInSubmissionOrder ==
    /\ \A k \in 1 .. Len(pk_out) :
          pk_out[k].line = "Results" =>
             /\ pk_out[k].section = 1 => pk_out[k].results = <<0, 1, 4, 9, 16>>
             /\ pk_out[k].section = 4 => pk_out[k].results = <<0, 2, 4, 6, 8>>
    /\ pk_section > 1 => PkPrinted(1, "Results")
    /\ pk_pc = "done" => PkPrinted(4, "Results")

\* main() has ended and the calls of the last section completed in another
\* order than they were submitted in
C13_Witness ==
    /\ pk_pc = "done"
    /\ PkPrinted(1, "Results") /\ PkPrinted(4, "Results")
    /\ pk_order # <<0, 1, 2, 3, 4>>

AnViolated(data) ==
    {field \in Chars(AnFields) :
        \/ field = "uid" /\ ~(data.uid > 0)
        \/ field = "username" /\ ~(Len(data.username) >= 3 /\ Len(data.username) <= 20)
        \/ field = "email" /\ ~email_pattern(data.email)
        \/ field = "age" /\ ~(data.age >= 13 /\ data.age <= 130)}

\* C15: once the call User(...) is over, either no constraint is violated
\* and the instance exists, or one ValidationError was raised and printed
\* whose errors are one per field with a violated constraint; for uid=0,
\* username='cs', a valid email and age=12 these are the three errors of
\* uid (greater than 0), username (too short) and age (at least 13), in
\* this order, and none for email.
C15_AllViolationsReported ==
    an_pc = "done" =>
        /\ AnViolated(an_data) = {} => an_out = <<>> /\ an_user = <<an_data>>
        /\ AnViolated(an_data) # {} =>
              /\ an_user = <<>>
              /\ Len(an_out) = 1
              /\ an_out[1].count = Cardinality(AnViolated(an_data))
              /\ Len(an_out[1].errors) = an_out[1].count
              /\ {e.loc : e \in Chars(an_out[1].errors)} = AnViolated(an_data)
        /\ an_data = AnScriptData =>
              an_out = <<[title |-> "User", count |-> 3,
                          errors |-> <<[loc |-> "uid", type |-> "greater_than"],
                                       [loc |-> "username", type |-> "string_too_short"],
                                       [loc |-> "age", type |-> "greater_than_equal"]>>]>>

\* the call of the script has been made and its three errors printed
C15_Witness ==
    /\ an_pc = "done"
    /\ an_data = AnScriptData
    /\ Len(an_out) = 1
    /\ an_out[1].count = 3

(***************************************************************************)
(* fastapi/concepts/00_basic.py: properties                                *)
(***************************************************************************)
ApiServed(method, path) ==
    \E k \in 1 .. Len(api_log) : api_log[k].method = method /\ api_log[k].path = path

ApiIsHello(response) ==
    /\ response.status = 200
    /\ response.endpoint = "home"
    /\ response.media_type = "application/json"
    /\ response.body = <<"{", "\"", "message", "\"", ":", "\"", "Hello World!", "\"", "}">>

ApiIsPage(response) ==
    /\ response.status = 200
    /\ response.endpoint = "about"
    /\ response.media_type = "text/html"
    /\ response.body = <<"<h1>This is the HTML response page</h1>">>

\* C16 as the specification states it: the functions of the script answer
\* two endpoints, GET / with {"message": "Hello World!"} and GET /info with
\* the HTML fragment, and nothing else.
C16_TwoEndpoints ==
    \A k \in 1 .. Len(api_log) :
        LET request == api_log[k] IN
        /\ request.method = "GET" /\ request.path = "/" => ApiIsHello(request.response)
        /\ request.method = "GET" /\ request.path = "/info" => ApiIsPage(request.response)
        /\ request.response.status = 200 => request.path \in {"/", "/info"}

\* C16: the functions of the script answer three endpoints: GET / with
\* {"message": "Hello World!"} as JSON, and GET /about and GET /info, both
\* with the same HTML fragment; any other request among those made is
\* answered by none of them.
C16_ThreeEndpoints ==
    \A k \in 1 .. Len(api_log) :
        LET request == api_log[k] IN
        /\ request.method = "GET" /\ request.path = "/" => ApiIsHello(request.response)
        /\ request.method = "GET" /\ request.path \in {"/about", "/info"} =>
              ApiIsPage(request.response)
        /\ request.response.status = 200 =>
              request.method = "GET" /\ request.path \in {"/", "/about", "/info"}

\* the three paths have been requested and answered
C16_Witness ==
    /\ ApiServed("GET", "/") /\ ApiServed("GET", "/about") /\ ApiServed("GET", "/info")
    /\ \A k \in 1 .. Len(api_log) : api_log[k].response.status = 200

(***************************************************************************)
(* pydantic/05_custom_validator.py: properties                             *)
(***************************************************************************)
\* C17: when validate_username has run on a username, it has accepted it
\* exactly when every character of the username is a letter, a digit or an
\* underscore, and the value it returned for an accepted username is the
\* username in lowercase.
C17_AcceptsExactlyWordCharacters ==
    cv_pc = "done" /\ cv_outcome.kind \in {"value", "ValueError"} =>
        /\ cv_outcome.kind = "value" <=>
              \A c \in Chars(cv_v) : c \in ascii_letters \cup Chars(digits) \cup {"_"}
        /\ cv_outcome.kind = "value" =>
              /\ Len(cv_outcome.value) = Len(cv_v)
              /\ \A i \in DOMAIN cv_v :
                    \/ cv_outcome.value[i] = cv_v[i] /\ cv_v[i] \notin Chars(ascii_uppercase)
                    \/ \E k \in DOMAIN ascii_uppercase :
                          /\ cv_v[i] = ascii_uppercase[k]
                          /\ cv_outcome.value[i] = ascii_lowercase[k]

(***************************************************************************)
(* pydantic/06_computed_field.py: properties                               *)
(***************************************************************************)
\* C18: the computed fields read from an instance are the ones determined
\* by its fields as they were when it was created, whatever has been
\* assigned since: display_name is first name, space, last name when both
\* were non-empty and the username otherwise, is_influencer is whether the
\* follower count was at least 10000.
C18_ComputedAtCreation ==
    cf_read.read =>
        /\ cf_read.display_name =
              IF cf_created.first_name # <<>> /\ cf_created.last_name # <<>>
              THEN cf_created.first_name \o <<" ">> \o cf_created.last_name
              ELSE cf_created.username
        /\ cf_read.is_influencer = (cf_created.follower_count >= 10000)

====
